---- MODULE Spec2Model ----
(***************************************************************************)
(* Model of the GA4 analytics backend: the Express routes of               *)
(* backend/index.js and the caching service analyticsService.js            *)
(* (credential memoization, aggregate cache, realtime cache per window).   *)
(*                                                                         *)
(* JavaScript numbers are records [kind, quarters]: kind "num" carries the *)
(* value in quarter units (1.5 is quarters = 6), so that Math.round acts   *)
(* on fractional inputs; "nan", "inf" and "ninf" are the non-finite        *)
(* values.                                                                 *)
(***************************************************************************)
EXTENDS Integers, Sequences, FiniteSets, TLC

VARIABLES
    query,                  \* req.query.minutes of the realtime route
    routePc,                \* position of the realtime route handler
    windowMinutes,          \* windowMinutes computed by the route
    clock,                  \* Date.now()
    keyFilePath,            \* process.env.GOOGLE_APPLICATION_CREDENTIALS is set
    promises,               \* the promises createAnalyticsClient has returned
    analyticsClientPromise, \* module variable: 0 is undefined, else an index of promises
    aggregateCache,         \* module variable { fetchedAt, data }
    realtimeCache,          \* module variable Map: window -> { fetchedAt, data }
    req,                    \* the calls of the service, one per slot
    upstreamCalled,         \* history: the report operations invoked so far
    http                    \* the HTTP requests: route, windowMinutes, responses sent

vars == <<query, routePc, windowMinutes, clock, keyFilePath, promises,
          analyticsClientPromise, aggregateCache, realtimeCache, req,
          upstreamCalled, http>>

serviceVars == <<clock, keyFilePath, promises, analyticsClientPromise,
                 aggregateCache, realtimeCache, req, upstreamCalled>>

routeVars == <<query, routePc, windowMinutes>>

handlerVars == <<query, routePc, windowMinutes, http>>

(* Bounds: the longest query text, the number of calls of a run, the steps of the clock *)

MaxRawLen == 4

NumRequests == 2

MaxTicks == 3

MaxRows == 3

(* JavaScript values *)

Num(n) == [kind |-> "num", quarters |-> 4 * n]

Quarters(k) == [kind |-> "num", quarters |-> k]

NaN == [kind |-> "nan", quarters |-> 0]

PosInfinity == [kind |-> "inf", quarters |-> 0]

NumberIsFinite(v) == v.kind = "num"

IsInteger(v) == v.kind = "num" /\ v.quarters % 4 = 0

IntOf(v) == v.quarters \div 4

MathMin(a, b) == IF a.quarters <= b.quarters THEN a ELSE b

MathRound(v) == Num((v.quarters + 2) \div 4)

Digits == <<"0", "1", "2", "3", "4", "5", "6", "7", "8", "9">>

IsDigit(c) == \E i \in 1..10 : Digits[i] = c

DigitValue(c) == (CHOOSE i \in 1..10 : Digits[i] = c) - 1

RECURSIVE SkipWhiteSpace(_)
SkipWhiteSpace(s) ==
    IF s # <<>> /\ Head(s) = " " THEN SkipWhiteSpace(Tail(s)) ELSE s

RECURSIVE LeadingDigits(_)
LeadingDigits(s) ==
    IF s # <<>> /\ IsDigit(Head(s)) THEN <<Head(s)>> \o LeadingDigits(Tail(s)) ELSE <<>>

RECURSIVE DigitsValue(_, _)
DigitsValue(s, acc) ==
    IF s = <<>> THEN acc ELSE DigitsValue(Tail(s), 10 * acc + DigitValue(Head(s)))

ToStringChars(q) ==
    IF q.absent THEN <<"u", "n", "d", "e", "f", "i", "n", "e", "d">> ELSE q.text

\* Number.parseInt(string, 10): leading white space, an optional sign, then the
\* longest run of decimal digits; NaN when that run is empty.
ParseInt10(q) ==
    LET s == SkipWhiteSpace(ToStringChars(q))
        signed == s # <<>> /\ Head(s) \in {"+", "-"}
        sign == IF s # <<>> /\ Head(s) = "-" THEN -1 ELSE 1
        ds == LeadingDigits(IF signed THEN Tail(s) ELSE s)
    IN  IF ds = <<>> THEN NaN ELSE Num(sign * DigitsValue(ds, 0))

(* backend/index.js and analyticsService.js constants *)

REALTIME_MAX_WINDOW_MINUTES == 29

AGGREGATE_CACHE_TTL_MS == 60 * 1000

REALTIME_CACHE_TTL_MS == 15 * 1000

(* GET /analytics/events/realtime: the window passed to the service *)

RouteWindowNoCap(q) ==
    LET requestedMinutes == ParseInt10(q)
    IN  IF NumberIsFinite(requestedMinutes) /\ requestedMinutes.quarters > 0
        THEN requestedMinutes
        ELSE Num(REALTIME_MAX_WINDOW_MINUTES)

RouteWindow(q) ==
    LET requestedMinutes == ParseInt10(q)
    IN  IF NumberIsFinite(requestedMinutes) /\ requestedMinutes.quarters > 0
        THEN MathMin(requestedMinutes, Num(REALTIME_MAX_WINDOW_MINUTES))
        ELSE Num(REALTIME_MAX_WINDOW_MINUTES)

QueryChars == {"0", "1", "2", "3", "5", "9", "-", " ", "a", "N", "."}

RECURSIVE TextsUpTo(_)
TextsUpTo(n) ==
    IF n = 0 THEN {<<>>}
    ELSE LET shorter == TextsUpTo(n - 1)
         IN  shorter \cup {Append(t, c) : t \in shorter, c \in QueryChars}

Absent == [absent |-> TRUE, text |-> <<>>]

QueryValues == {Absent} \cup {[absent |-> FALSE, text |-> t] : t \in TextsUpTo(MaxRawLen)}

(* Service state: analyticsService.js *)

Requests == 1..NumRequests

NoWindow == 0 - 1

\* the propertyId argument left out (undefined in the code)
NoPropertyId == "undefined"

PropertyIds == {NoPropertyId, "", "123"}

\* a check that lets every propertyId pass
NeverMissing(propertyId) == FALSE

\* if (!propertyId): undefined and the empty string are falsy
MissingPropertyId(propertyId) == propertyId \in {NoPropertyId, ""}

ValidPropertyIds == {"123"}

Undef == [kind |-> "undef", quarters |-> 0]

\* minutesAgo arguments of direct calls: absent, NaN, Infinity, -5, 0, 0.25, 1.5, 45
MinutesArgs ==
    {Undef, NaN, PosInfinity, Num(0 - 5), Num(0), Quarters(1), Quarters(6), Num(45)}

\* absent, 1.5
ValidMinutesArgs == {Undef, Quarters(6)}

NullData == [null |-> TRUE, items |-> <<>>]

Arr(items) == [null |-> FALSE, items |-> items]

\* a test that takes an empty list for no data
TruthyNonEmpty(d) == ~d.null /\ d.items # <<>>

\* aggregateCache.data && ...: null is falsy, every array is truthy, [] too
Truthy(d) == ~d.null

MissingName == [has |-> FALSE, value |-> ""]

MissingMetric == [has |-> FALSE, value |-> <<>>]

Val(v) == [has |-> TRUE, value |-> v]

Row(name, metric) == [dimensionValue |-> name, metricValue |-> metric]

\* responses of the Data API: response.data.rows absent, or a list of rows
UpstreamResponses ==
    { [hasRows |-> FALSE, rows |-> <<>>],
      [hasRows |-> TRUE,
       rows |-> <<Row(Val("page_view"), Val(<<"4", "2">>)), Row(MissingName, MissingMetric)>>] }

ShapeRow(row) ==
    [eventName |-> IF row.dimensionValue.has THEN row.dimensionValue.value ELSE "unknown_event",
     count |-> IF row.metricValue.has THEN DigitsValue(row.metricValue.value, 0) ELSE 0]

\* the rows shaped in the opposite order
ShapeReversed(response) ==
    LET rows == IF response.hasRows THEN response.rows ELSE <<>>
    IN  [i \in 1..Len(rows) |-> ShapeRow(rows[Len(rows) + 1 - i])]

Shape(response) ==
    LET rows == IF response.hasRows THEN response.rows ELSE <<>>
    IN  [i \in 1..Len(rows) |-> ShapeRow(rows[i])]

\* what the report operation of a call has answered
NoResponse == [status |-> "none", hasRows |-> FALSE, rows |-> <<>>]

Answer(status, response) ==
    [status |-> status, hasRows |-> response.hasRows, rows |-> response.rows]

NoResult == [status |-> "none", data |-> <<>>, error |-> "", from |-> "none"]

Idle ==
    [pc |-> "idle", fn |-> "none", propertyId |-> "", minutesAgo |-> Undef,
     window |-> NoWindow, now |-> 0, awaiting |-> 0, result |-> NoResult,
     invoked |-> FALSE, response |-> NoResponse, servedFetchedAt |-> 0 - 1, configured |-> FALSE,
     inFlightAtStart |-> {}, freshAtRejection |-> FALSE]

Failure(error) == [status |-> "error", data |-> <<>>, error |-> error, from |-> "none"]

Success(data, from) == [status |-> "ok", data |-> data, error |-> "", from |-> from]

IsFreshInverted(now, fetchedAt, ttl) == now - fetchedAt > ttl

IsFreshInclusive(now, fetchedAt, ttl) == now - fetchedAt <= ttl

\* the freshness test of both caches: now - fetchedAt < TTL
IsFresh(now, fetchedAt, ttl) == now - fetchedAt < ttl

\* getEventCountsLast7Days: the entry may be served
AggregateHit(now) ==
    Truthy(aggregateCache.data) /\ IsFresh(now, aggregateCache.fetchedAt, AGGREGATE_CACHE_TTL_MS)

\* a check that rejects negative numbers only
InvalidWindowNegativeOnly(minutesAgo) == NumberIsFinite(minutesAgo) /\ minutesAgo.quarters < 0

\* if (!Number.isFinite(minutesAgo) || minutesAgo <= 0)
InvalidWindow(minutesAgo) == ~NumberIsFinite(minutesAgo) \/ minutesAgo.quarters <= 0

\* the rounding without the cap
RealtimeWindowNoCap(minutesAgo) == IntOf(MathRound(minutesAgo))

\* getRealtimeEventCounts: window = Math.min(Math.round(minutesAgo), 29)
RealtimeWindow(minutesAgo) ==
    IntOf(MathMin(MathRound(minutesAgo), Num(REALTIME_MAX_WINDOW_MINUTES)))

\* getRealtimeEventCounts: cached && now - cached.fetchedAt < TTL
RealtimeHit(window, now) ==
    /\ window \in DOMAIN realtimeCache
    /\ IsFresh(now, realtimeCache[window].fetchedAt, REALTIME_CACHE_TTL_MS)

\* forgets a rejected construction and starts another
NeedsCreateAfterRejection ==
    IF analyticsClientPromise = 0 THEN TRUE
    ELSE promises[analyticsClientPromise].state = "rejected"

\* memoizes the client, not the construction in progress
NeedsCreateUntilResolved ==
    IF analyticsClientPromise = 0 THEN TRUE
    ELSE promises[analyticsClientPromise].state # "resolved"

\* getAnalyticsClient: !analyticsClientPromise
NeedsCreate == analyticsClientPromise = 0

\* no test of the credential reference before the handshake
CreateWithoutCheck == [state |-> "pending", error |-> "", handshake |-> TRUE]

\* createAnalyticsClient up to its first await: the promise it returns
CreateAnalyticsClient ==
    IF ~keyFilePath
    THEN [state |-> "rejected", error |-> "ConfigError", handshake |-> FALSE]
    ELSE [state |-> "pending", error |-> "", handshake |-> TRUE]

\* a map rebuilt with the one new entry
MapReplace(map, window, entry) == [w \in {window} |-> entry]

\* realtimeCache.set(window, entry)
MapSet(map, window, entry) ==
    [w \in DOMAIN map \cup {window} |-> IF w = window THEN entry ELSE map[w]]

\* a realtime entry that a call at the instant now would be served from
FreshRealtimeEntry(now) == \E w \in DOMAIN realtimeCache : RealtimeHit(w, now)

\* a call that its function rejects at the check of its arguments
Rejected(call, error, fresh) ==
    [call EXCEPT !.pc = "done", !.result = Failure(error), !.freshAtRejection = fresh]

\* an HTTP request that has not arrived
NoRequest == [pc |-> "idle", route |-> "none", windowMinutes |-> NaN, responses |-> <<>>]

\* res.json({ events }): status 200
EventsResponse(events) ==
    [status |-> 200, windowMinutes |-> NaN, events |-> events, error |-> ""]

\* res.json({ windowMinutes, events }): status 200
RealtimeResponse(window, events) ==
    [status |-> 200, windowMinutes |-> window, events |-> events, error |-> ""]

\* a catch that answers with an empty event list
EmptyEventsResponse(route) == EventsResponse(<<>>)

\* res.status(500).json({ error }): the message of the route
ErrorResponse(route) ==
    [status |-> 500, windowMinutes |-> NaN, events |-> <<>>,
     error |-> IF route = "events" THEN "Unable to load analytics data"
               ELSE "Unable to load realtime analytics data"]

\* a handler that sends nothing
SendNothing(responses, response) == responses

\* res.json(body): the response goes out
Send(responses, response) == Append(responses, response)

\* process.env.GA4_PROPERTY_ID || "513053895": a non-empty string in any case
GA4_PROPERTY_ID == "513053895"

\* an entry stamped with the time of the store
EntryAtStoreTime(r, data) == [fetchedAt |-> clock, data |-> data]

\* { fetchedAt: now, data: shaped }: now is the time the call captured before
\* its awaits
Entry(r, data) == [fetchedAt |-> req[r].now, data |-> data]

\* what the cache holds for the key of r when r resumes, in place of its own rows
ReturnStored(r, shaped) ==
    Success(IF req[r].fn = "aggregate" THEN aggregateCache.data.items
            ELSE IF req[r].window \in DOMAIN realtimeCache
                 THEN realtimeCache[req[r].window].data ELSE <<>>,
            "upstream")

\* return shaped
ReturnShaped(r, shaped) == Success(shaped, "upstream")

InFlight(r) == req[r].pc \in {"awaitClient", "awaitReport"}

\* req is the list of the calls made so far: slot r holds the r-th call
CanCall(r) == req[r].pc = "idle" /\ (IF r = 1 THEN TRUE ELSE req[r - 1].pc # "idle")

\* history kept with a call that passed validation: the credential reference
\* at its start and the earlier calls of its key still in flight at its start
Started(call) ==
    [call EXCEPT !.configured = keyFilePath,
                 !.inFlightAtStart = {s \in Requests : InFlight(s) /\ req[s].fn = call.fn
                                                        /\ req[s].window = call.window}]

\* getAnalyticsClient(): the memoized promise, created by the first caller
GetAnalyticsClient ==
    IF NeedsCreate
    THEN /\ promises' = Append(promises, CreateAnalyticsClient)
         /\ analyticsClientPromise' = Len(promises) + 1
    ELSE UNCHANGED <<promises, analyticsClientPromise>>

Init ==
    /\ query = Absent
    /\ routePc = "off"
    /\ windowMinutes = NaN
    /\ clock = 0
    /\ keyFilePath \in BOOLEAN
    /\ promises = <<>>
    /\ analyticsClientPromise = 0
    /\ aggregateCache = [fetchedAt |-> 0, data |-> NullData]
    /\ realtimeCache = [w \in {} |-> 0]
    /\ req = [r \in Requests |-> Idle]
    /\ upstreamCalled = {}
    /\ http = [r \in Requests |-> NoRequest]

\* a catch that turns the error into an empty result
Swallow(error) == Success(<<>>, "upstream")

\* a rejection of an awaited promise propagates to the caller
Propagate(error) == Failure(error)

\* an empty list in place of the stored data
ServeAggregateEmpty == Success(<<>>, "cache")

\* return aggregateCache.data
ServeAggregate == Success(aggregateCache.data.items, "cache")

\* return cached.data
ServeRealtime(window) == Success(realtimeCache[window].data, "cache")

\* getEventCountsLast7Days(propertyId), up to its first await
GetEventCountsLast7Days(r, propertyId) ==
    /\ CanCall(r)
    /\ LET call == [Idle EXCEPT !.fn = "aggregate", !.propertyId = propertyId]
       IN  IF MissingPropertyId(propertyId)
           THEN /\ req' = [req EXCEPT ![r] =
                            Rejected(call, "PropertyIdError", AggregateHit(clock))]
                /\ UNCHANGED <<promises, analyticsClientPromise>>
           ELSE IF AggregateHit(clock)
           THEN /\ req' = [req EXCEPT ![r] =
                            Started([call EXCEPT !.pc = "done", !.now = clock,
                                                 !.result = ServeAggregate,
                                                 !.servedFetchedAt = aggregateCache.fetchedAt])]
                /\ UNCHANGED <<promises, analyticsClientPromise>>
           ELSE /\ GetAnalyticsClient
                /\ req' = [req EXCEPT ![r] =
                            Started([call EXCEPT !.pc = "awaitClient", !.now = clock,
                                                 !.awaiting = analyticsClientPromise'])]
    /\ UNCHANGED <<clock, keyFilePath, aggregateCache, realtimeCache, upstreamCalled>>
    /\ UNCHANGED routeVars

\* getRealtimeEventCounts(propertyId, minutesAgo), up to its first await
GetRealtimeEventCounts(r, propertyId, minutesArg) ==
    /\ CanCall(r)
    /\ LET minutesAgo == IF minutesArg.kind = "undef"
                         THEN Num(REALTIME_MAX_WINDOW_MINUTES) ELSE minutesArg
           call == [Idle EXCEPT !.fn = "realtime", !.propertyId = propertyId,
                                !.minutesAgo = minutesArg]
       IN  IF MissingPropertyId(propertyId)
           THEN /\ req' = [req EXCEPT ![r] =
                            Rejected(call, "PropertyIdError", FreshRealtimeEntry(clock))]
                /\ UNCHANGED <<promises, analyticsClientPromise>>
           ELSE IF InvalidWindow(minutesAgo)
           THEN /\ req' = [req EXCEPT ![r] =
                            Rejected(call, "WindowError", FreshRealtimeEntry(clock))]
                /\ UNCHANGED <<promises, analyticsClientPromise>>
           ELSE LET window == RealtimeWindow(minutesAgo)
                IN  IF RealtimeHit(window, clock)
                    THEN /\ req' = [req EXCEPT ![r] =
                                Started([call EXCEPT !.pc = "done", !.window = window,
                                             !.now = clock,
                                             !.result = ServeRealtime(window),
                                             !.servedFetchedAt = realtimeCache[window].fetchedAt])]
                         /\ UNCHANGED <<promises, analyticsClientPromise>>
                    ELSE /\ GetAnalyticsClient
                         /\ req' = [req EXCEPT ![r] =
                                Started([call EXCEPT !.pc = "awaitClient", !.window = window,
                                             !.now = clock,
                                             !.awaiting = analyticsClientPromise'])]
    /\ UNCHANGED <<clock, keyFilePath, aggregateCache, realtimeCache, upstreamCalled>>
    /\ UNCHANGED routeVars

\* a failure of an earlier report call of the same function held against the call
AwaitThrowsAfterFailure(r) ==
    \/ promises[req[r].awaiting].state = "rejected"
    \/ \E s \in Requests : req[s].fn = req[r].fn /\ req[s].result.error = "UpstreamError"

\* await getAnalyticsClient() throws: the memoized promise is rejected
AwaitThrows(r) == promises[req[r].awaiting].state = "rejected"

\* await getAnalyticsClient() resumes: the rejection propagates, or the report
\* operation (runReport, runRealtimeReport) is invoked
ResumeWithClient(r) ==
    /\ req[r].pc = "awaitClient"
    /\ promises[req[r].awaiting].state # "pending"
    /\ IF AwaitThrows(r)
       THEN /\ req' = [req EXCEPT ![r].pc = "done",
                                  ![r].result = Propagate(promises[req[r].awaiting].error)]
            /\ UNCHANGED upstreamCalled
       ELSE /\ req' = [req EXCEPT ![r].pc = "awaitReport", ![r].invoked = TRUE,
                                  ![r].response = Answer("pending", NoResponse)]
            /\ upstreamCalled' = upstreamCalled \cup {req[r].fn}
    /\ UNCHANGED <<clock, keyFilePath, promises, analyticsClientPromise,
                   aggregateCache, realtimeCache>>
    /\ UNCHANGED handlerVars

\* the report operation resolves: shape the rows, store the entry, return
ReportSucceeds(r, response) ==
    /\ req[r].pc = "awaitReport"
    /\ LET shaped == Shape(response)
       IN  /\ IF req[r].fn = "aggregate"
              THEN /\ aggregateCache' = Entry(r, Arr(shaped))
                   /\ UNCHANGED realtimeCache
              ELSE /\ realtimeCache' = MapSet(realtimeCache, req[r].window,
                                              Entry(r, shaped))
                   /\ UNCHANGED aggregateCache
           /\ req' = [req EXCEPT ![r].pc = "done", ![r].result = ReturnShaped(r, shaped),
                                 ![r].response = Answer("resolved", response)]
    /\ UNCHANGED <<clock, keyFilePath, promises, analyticsClientPromise, upstreamCalled>>
    /\ UNCHANGED handlerVars

\* the report operation rejects (transport, auth, quota)
ReportFails(r) ==
    /\ req[r].pc = "awaitReport"
    /\ req' = [req EXCEPT ![r].pc = "done", ![r].result = Propagate("UpstreamError"),
                             ![r].response = Answer("rejected", NoResponse)]
    /\ UNCHANGED <<clock, keyFilePath, promises, analyticsClientPromise,
                   aggregateCache, realtimeCache, upstreamCalled>>
    /\ UNCHANGED handlerVars

\* auth.getClient() resolves: createAnalyticsClient returns the Data API client
HandshakeSucceeds(p) ==
    /\ promises[p].state = "pending"
    /\ promises' = [promises EXCEPT ![p].state = "resolved"]
    /\ UNCHANGED <<clock, keyFilePath, analyticsClientPromise, aggregateCache,
                   realtimeCache, req, upstreamCalled>>
    /\ UNCHANGED handlerVars

\* auth.getClient() rejects (unreadable or invalid key file, failed handshake)
HandshakeFails(p) ==
    /\ promises[p].state = "pending"
    /\ promises' = [promises EXCEPT ![p].state = "rejected", ![p].error = "AuthError"]
    /\ UNCHANGED <<clock, keyFilePath, analyticsClientPromise, aggregateCache,
                   realtimeCache, req, upstreamCalled>>
    /\ UNCHANGED handlerVars

\* the instant after n steps of the clock: 0, 15000, 60000, 75000, 120000, ...
\* (the instants at which a TTL counted from an earlier instant runs out)
ClockAt(n) == (n \div 2) * AGGREGATE_CACHE_TTL_MS + (n % 2) * REALTIME_CACHE_TTL_MS

\* time passes, to the next such instant
Tick ==
    /\ clock < ClockAt(MaxTicks)
    /\ clock' = IF clock % AGGREGATE_CACHE_TTL_MS = 0
                THEN clock + REALTIME_CACHE_TTL_MS
                ELSE clock + (AGGREGATE_CACHE_TTL_MS - REALTIME_CACHE_TTL_MS)
    /\ UNCHANGED <<keyFilePath, promises, analyticsClientPromise, aggregateCache,
                   realtimeCache, req, upstreamCalled>>
    /\ UNCHANGED handlerVars

\* the environment variable is set while the process runs
SetCredentialsEnv ==
    /\ ~keyFilePath
    /\ keyFilePath' = TRUE
    /\ UNCHANGED <<clock, promises, analyticsClientPromise, aggregateCache,
                   realtimeCache, req, upstreamCalled>>
    /\ UNCHANGED handlerVars

Next ==
    \/ \E r \in Requests, propertyId \in ValidPropertyIds :
          GetEventCountsLast7Days(r, propertyId) /\ UNCHANGED http
    \/ \E r \in Requests, propertyId \in ValidPropertyIds, minutesArg \in ValidMinutesArgs :
          GetRealtimeEventCounts(r, propertyId, minutesArg) /\ UNCHANGED http
    \/ \E r \in Requests : ResumeWithClient(r)
    \/ \E r \in Requests, response \in UpstreamResponses : ReportSucceeds(r, response)
    \/ \E r \in Requests : ReportFails(r)
    \/ \E p \in DOMAIN promises : HandshakeSucceeds(p)
    \/ \E p \in DOMAIN promises : HandshakeFails(p)
    \/ Tick
    \/ SetCredentialsEnv

Spec == Init /\ [][Next]_vars

\* the same service, called with every kind of argument
NextInputs ==
    \/ \E r \in Requests, propertyId \in PropertyIds :
          GetEventCountsLast7Days(r, propertyId) /\ UNCHANGED http
    \/ \E r \in Requests, propertyId \in PropertyIds, minutesArg \in MinutesArgs :
          GetRealtimeEventCounts(r, propertyId, minutesArg) /\ UNCHANGED http
    \/ \E r \in Requests : ResumeWithClient(r)
    \/ \E r \in Requests, response \in UpstreamResponses : ReportSucceeds(r, response)
    \/ \E r \in Requests : ReportFails(r)
    \/ \E p \in DOMAIN promises : HandshakeSucceeds(p)
    \/ \E p \in DOMAIN promises : HandshakeFails(p)
    \/ Tick
    \/ SetCredentialsEnv

SpecInputs == Init /\ [][NextInputs]_vars

\* minutesAgo arguments that the check rejects, and the default: NaN, Infinity, -5, 0, absent
RejectedMinutesArgs == {NaN, PosInfinity, Num(0 - 5), Num(0), Undef}

\* the same service, called with arguments that the checks of the arguments reject
NextRejects ==
    \/ \E r \in Requests, propertyId \in PropertyIds :
          GetEventCountsLast7Days(r, propertyId) /\ UNCHANGED http
    \/ \E r \in Requests, propertyId \in PropertyIds, minutesArg \in RejectedMinutesArgs :
          GetRealtimeEventCounts(r, propertyId, minutesArg) /\ UNCHANGED http
    \/ \E r \in Requests : ResumeWithClient(r)
    \/ \E r \in Requests, response \in UpstreamResponses : ReportSucceeds(r, response)
    \/ \E r \in Requests : ReportFails(r)
    \/ \E p \in DOMAIN promises : HandshakeSucceeds(p)
    \/ \E p \in DOMAIN promises : HandshakeFails(p)
    \/ Tick

SpecRejects == Init /\ [][NextRejects]_vars

\* two GA4 properties
TwoPropertyIds == {"123", "456"}

\* the same service, called for two properties
NextProperties ==
    \/ \E r \in Requests, propertyId \in TwoPropertyIds :
          GetEventCountsLast7Days(r, propertyId) /\ UNCHANGED http
    \/ \E r \in Requests, propertyId \in TwoPropertyIds, minutesArg \in ValidMinutesArgs :
          GetRealtimeEventCounts(r, propertyId, minutesArg) /\ UNCHANGED http
    \/ \E r \in Requests : ResumeWithClient(r)
    \/ \E r \in Requests, response \in UpstreamResponses : ReportSucceeds(r, response)
    \/ \E r \in Requests : ReportFails(r)
    \/ \E p \in DOMAIN promises : HandshakeSucceeds(p)
    \/ \E p \in DOMAIN promises : HandshakeFails(p)
    \/ Tick

SpecProperties == Init /\ [][NextProperties]_vars

(* The realtime route on its own: every query value, clamped *)

InitClamp ==
    /\ query \in QueryValues
    /\ routePc = "start"
    /\ windowMinutes = NaN
    /\ clock = 0
    /\ keyFilePath = TRUE
    /\ promises = <<>>
    /\ analyticsClientPromise = 0
    /\ aggregateCache = [fetchedAt |-> 0, data |-> NullData]
    /\ realtimeCache = [w \in {} |-> 0]
    /\ req = [r \in Requests |-> Idle]
    /\ upstreamCalled = {}
    /\ http = [r \in Requests |-> NoRequest]

\* app.get("/analytics/events/realtime"): requestedMinutes, windowMinutes
ComputeWindowMinutes ==
    /\ routePc = "start"
    /\ windowMinutes' = RouteWindow(query)
    /\ routePc' = "clamped"
    /\ UNCHANGED <<query, http>>
    /\ UNCHANGED serviceVars

NextClamp == ComputeWindowMinutes

SpecClamp == InitClamp /\ [][NextClamp]_vars

(* One raw input given to both layers: to the route as the text of the minutes
   parameter, to getRealtimeEventCounts as the minutesAgo argument *)

RECURSIVE NatChars(_)
NatChars(n) ==
    IF n < 10 THEN <<Digits[n + 1]>> ELSE NatChars(n \div 10) \o <<Digits[(n % 10) + 1]>>

\* the decimal numeral of the integer n
Decimal(n) == IF n < 0 THEN <<"-">> \o NatChars(0 - n) ELSE NatChars(n)

Text(chars) == [absent |-> FALSE, text |-> chars]

LayerIntegers == ((0 - 3)..31) \cup {45, 1000}

\* the raw inputs: absent, integers, NaN, Infinity, 0.25, 1.5
LayerInputs ==
    {[query |-> Absent, minutesArg |-> Undef]}
        \cup {[query |-> Text(Decimal(n)), minutesArg |-> Num(n)] : n \in LayerIntegers}
        \cup {[query |-> Text(<<"N", "a", "N">>), minutesArg |-> NaN],
              [query |-> Text(<<"I", "n", "f", "i", "n", "i", "t", "y">>),
               minutesArg |-> PosInfinity],
              [query |-> Text(<<"0", ".", "2", "5">>), minutesArg |-> Quarters(1)],
              [query |-> Text(<<"1", ".", "5">>), minutesArg |-> Quarters(6)]}

\* the argument of the direct call that carries the same raw input as the query
MinutesArgOf(q) == (CHOOSE p \in LayerInputs : p.query = q).minutesArg

InitLayers ==
    /\ query \in {p.query : p \in LayerInputs}
    /\ routePc = "start"
    /\ windowMinutes = NaN
    /\ clock = 0
    /\ keyFilePath \in BOOLEAN
    /\ promises = <<>>
    /\ analyticsClientPromise = 0
    /\ aggregateCache = [fetchedAt |-> 0, data |-> NullData]
    /\ realtimeCache = [w \in {} |-> 0]
    /\ req = [r \in Requests |-> Idle]
    /\ upstreamCalled = {}
    /\ http = [r \in Requests |-> NoRequest]

NextLayers ==
    \/ ComputeWindowMinutes
    \/ \E propertyId \in ValidPropertyIds :
          GetRealtimeEventCounts(1, propertyId, MinutesArgOf(query)) /\ UNCHANGED http
    \/ ResumeWithClient(1)
    \/ \E response \in UpstreamResponses : ReportSucceeds(1, response)
    \/ ReportFails(1)
    \/ \E p \in DOMAIN promises : HandshakeSucceeds(p)
    \/ \E p \in DOMAIN promises : HandshakeFails(p)

SpecLayers == InitLayers /\ [][NextLayers]_vars

(* The Express routes in front of the service: request r of the run is handled
   by call r of the service *)

\* the minutes parameter of the requests: absent, "5", "30", "-1"
HttpQueries == {Absent, Text(<<"5">>), Text(<<"3", "0">>), Text(<<"-", "1">>)}

\* app.get("/analytics/events"), up to the await of the service call
HttpGetEvents(r) ==
    /\ http[r].pc = "idle"
    /\ GetEventCountsLast7Days(r, GA4_PROPERTY_ID)
    /\ http' = [http EXCEPT ![r].pc = "awaiting", ![r].route = "events"]

\* app.get("/analytics/events/realtime"), up to the await of the service call
HttpGetRealtime(r, q) ==
    /\ http[r].pc = "idle"
    /\ GetRealtimeEventCounts(r, GA4_PROPERTY_ID, RouteWindow(q))
    /\ http' = [http EXCEPT ![r].pc = "awaiting", ![r].route = "realtime",
                            ![r].windowMinutes = RouteWindow(q)]

\* the await of the service call resumes: res.json in the try block, or
\* res.status(500).json in the catch block
HttpRespond(r) ==
    /\ http[r].pc = "awaiting"
    /\ req[r].pc = "done"
    /\ LET response ==
              IF req[r].result.status = "error" THEN ErrorResponse(http[r].route)
              ELSE IF http[r].route = "events" THEN EventsResponse(req[r].result.data)
              ELSE RealtimeResponse(http[r].windowMinutes, req[r].result.data)
       IN  http' = [http EXCEPT ![r].pc = "done",
                                ![r].responses = Send(http[r].responses, response)]
    /\ UNCHANGED serviceVars
    /\ UNCHANGED routeVars

NextHttp ==
    \/ \E r \in Requests : HttpGetEvents(r)
    \/ \E r \in Requests, q \in HttpQueries : HttpGetRealtime(r, q)
    \/ \E r \in Requests : HttpRespond(r)
    \/ \E r \in Requests : ResumeWithClient(r)
    \/ \E r \in Requests, response \in UpstreamResponses : ReportSucceeds(r, response)
    \/ \E r \in Requests : ReportFails(r)
    \/ \E p \in DOMAIN promises : HandshakeSucceeds(p)
    \/ \E p \in DOMAIN promises : HandshakeFails(p)
    \/ Tick

SpecHttp == Init /\ [][NextHttp]_vars

(* One call and every response of the Data API up to MaxRows rows *)

\* rows with and without a dimension value and a metric value
RowSet ==
    {Row(Val("page_view"), Val(<<"4", "2">>)), Row(Val("click"), Val(<<"7">>)),
     Row(MissingName, Val(<<"7">>)), Row(MissingName, MissingMetric)}

\* response.data.rows absent, empty, or up to MaxRows rows in any order
RowResponses ==
    {[hasRows |-> FALSE, rows |-> <<>>]}
        \cup {[hasRows |-> TRUE, rows |-> rows] :
                 rows \in UNION {[1..k -> RowSet] : k \in 0..MaxRows}}

NextShape ==
    \/ \E propertyId \in ValidPropertyIds :
          GetEventCountsLast7Days(1, propertyId) /\ UNCHANGED http
    \/ \E propertyId \in ValidPropertyIds, minutesArg \in ValidMinutesArgs :
          GetRealtimeEventCounts(1, propertyId, minutesArg) /\ UNCHANGED http
    \/ ResumeWithClient(1)
    \/ \E response \in RowResponses : ReportSucceeds(1, response)
    \/ ReportFails(1)
    \/ \E p \in DOMAIN promises : HandshakeSucceeds(p)
    \/ \E p \in DOMAIN promises : HandshakeFails(p)

SpecShape == Init /\ [][NextShape]_vars

(* The routes under fairness: the event loop runs every continuation that is
   ready, and the handshake and each report call complete at some time *)

HandshakeCompletes ==
    \E p \in DOMAIN promises : HandshakeSucceeds(p) \/ HandshakeFails(p)

ReportCompletes(r) ==
    (\E response \in UpstreamResponses : ReportSucceeds(r, response)) \/ ReportFails(r)

Fairness ==
    /\ WF_vars(HandshakeCompletes)
    /\ \A r \in Requests :
          /\ WF_vars(ReportCompletes(r))
          /\ WF_vars(ResumeWithClient(r))
          /\ WF_vars(HttpRespond(r))

\* the minutes parameter of the requests: absent, "5"
LiveQueries == {Absent, Text(<<"5">>)}

\* the routes and the service at one instant of the clock
NextLive ==
    \/ \E r \in Requests : HttpGetEvents(r)
    \/ \E r \in Requests, q \in LiveQueries : HttpGetRealtime(r, q)
    \/ \E r \in Requests : HttpRespond(r)
    \/ \E r \in Requests : ResumeWithClient(r)
    \/ \E r \in Requests, response \in UpstreamResponses : ReportSucceeds(r, response)
    \/ \E r \in Requests : ReportFails(r)
    \/ \E p \in DOMAIN promises : HandshakeSucceeds(p)
    \/ \E p \in DOMAIN promises : HandshakeFails(p)

SpecHttpFair == Init /\ [][NextLive]_vars /\ Fairness

(* Claims *)

ValidatedRealtime(r) ==
    /\ req[r].pc # "idle"
    /\ req[r].fn = "realtime"
    /\ req[r].result.error \notin {"PropertyIdError", "WindowError"}

\* C2: for every call of getRealtimeEventCounts that input validation does not
\* reject, the window used for the upstream call and as the cache key is an
\* integer in 1..29; every key of the realtime cache is in 1..29 and the map
\* never holds more than 29 entries.
C2_WindowInRange ==
    /\ \A r \in Requests : ValidatedRealtime(r) => req[r].window \in 1..29
    /\ DOMAIN realtimeCache \subseteq 1..29
    /\ Cardinality(DOMAIN realtimeCache) <= 29

\* r holds a call that passed the validation of its arguments
Keyed(r) ==
    /\ req[r].pc # "idle"
    /\ req[r].result.error \notin {"PropertyIdError", "WindowError"}

SameKey(r1, r2) == req[r1].fn = req[r2].fn /\ req[r1].window = req[r2].window

Ttl(r) == IF req[r].fn = "aggregate" THEN AGGREGATE_CACHE_TTL_MS ELSE REALTIME_CACHE_TTL_MS

Abs(n) == IF n < 0 THEN 0 - n ELSE n

\* r was in flight together with another call of its key
Overlapped(r) ==
    \/ req[r].inFlightAtStart # {}
    \/ \E s \in Requests : r \in req[s].inFlightAtStart

EntryStale(fn, window, now) ==
    IF fn = "aggregate"
    THEN aggregateCache.data.null \/ now - aggregateCache.fetchedAt >= 60000
    ELSE window \notin DOMAIN realtimeCache \/ now - realtimeCache[window].fetchedAt >= 15000

\* r starts a call in this step, and the call passes validation
Starts(r) == req[r].pc = "idle" /\ req'[r].pc # "idle" /\ Keyed(r)'

\* C4 as stated: a call that finds no entry or a stale entry always invokes the
\* upstream report operation.
C4_MissAlwaysInvokes ==
    \A r \in Requests :
        (Keyed(r) /\ req[r].pc = "done" /\ req[r].result.from # "cache") => req[r].invoked

C4_ServedIsFresh ==
    \A r \in Requests :
        /\ (Keyed(r) /\ req[r].result.from = "cache")
               => /\ req[r].now - req[r].servedFetchedAt < Ttl(r)
                  /\ ~req[r].invoked
        /\ (Keyed(r) /\ req[r].pc = "done" /\ req[r].result.from # "cache")
               => \/ req[r].invoked
                  \/ req[r].result.error \in {"ConfigError", "AuthError"}

C4_StaleMisses ==
    \A r \in Requests :
        (Starts(r) /\ EntryStale(req'[r].fn, req'[r].window, clock))
            => /\ req'[r].pc = "awaitClient"
               /\ req'[r].result = NoResult
               /\ req'[r].awaiting = analyticsClientPromise'
               /\ analyticsClientPromise' # 0

\* C4 amended: a stale entry is never served. A call whose read time satisfies
\* now - fetchedAt >= TTL for the entry of its key (equality counts as stale), or
\* that finds no entry, never returns cached data: it awaits the memoized client
\* and, unless the credential construction fails, invokes the upstream report
\* operation; every result returned from the cache has now - fetchedAt < TTL.
C4_StaleNeverServed == []C4_ServedIsFresh /\ [][C4_StaleMisses]_vars

C4_Witness ==
    /\ Keyed(1) /\ Keyed(2) /\ SameKey(1, 2)
    /\ req[1].result.from = "upstream"
    /\ ~Overlapped(2)
    /\ req[2].now - req[1].now = Ttl(1)
    /\ req[2].invoked

\* r holds a call that missed the cache
Missed(r) == Keyed(r) /\ req[r].result.from # "cache"

Handshakes == {p \in DOMAIN promises : promises[p].handshake}

\* C5: createAnalyticsClient (the authentication handshake) is started at most
\* once over all interleavings of aggregate and realtime requests, and exactly
\* once as soon as a request has missed the cache; every request that missed
\* awaits (or awaited) that one construction.
C5_SingleConstruction ==
    /\ Len(promises) <= 1
    /\ Cardinality(Handshakes) <= 1
    /\ \A r \in Requests :
          Missed(r) => /\ Len(promises) = 1
                       /\ analyticsClientPromise = 1
                       /\ req[r].awaiting = 1

C5_Witness ==
    /\ req[1].pc = "awaitClient" /\ req[2].pc = "awaitClient"
    /\ req[1].fn # req[2].fn
    /\ Len(promises) = 1
    /\ promises[1].state = "pending"
    /\ req[1].awaiting = 1 /\ req[2].awaiting = 1

\* r stores the result of its upstream call in this step
Stores(r) ==
    req[r].pc = "awaitReport" /\ req'[r].pc = "done" /\ req'[r].result.status = "ok"

\* C6: a refresh modifies only the slot of its own key: storing a realtime
\* result for window w leaves every realtime entry of another window and the
\* aggregate entry unchanged, storing an aggregate result leaves every realtime
\* entry unchanged.
C6_KeyIsolation ==
    [][\A r \in Requests :
          Stores(r) =>
              IF req[r].fn = "aggregate"
              THEN /\ realtimeCache' = realtimeCache
                   /\ aggregateCache'.fetchedAt = req[r].now
              ELSE /\ aggregateCache' = aggregateCache
                   /\ \A w \in DOMAIN realtimeCache :
                         w # req[r].window =>
                             /\ w \in DOMAIN realtimeCache'
                             /\ realtimeCache'[w] = realtimeCache[w]
                   /\ req[r].window \in DOMAIN realtimeCache'
                   /\ realtimeCache'[req[r].window].fetchedAt = req[r].now]_vars

C6_Witness ==
    /\ req[1].fn = "realtime" /\ req[2].fn = "realtime"
    /\ req[1].window # req[2].window
    /\ req[1].result.from = "upstream" /\ req[2].result.from = "upstream"
    /\ req[1].now < req[2].now
    /\ req[1].result.data # req[2].result.data
    /\ DOMAIN realtimeCache = {req[1].window, req[2].window}
    /\ realtimeCache[req[1].window] = [fetchedAt |-> req[1].now, data |-> req[1].result.data]
    /\ realtimeCache[req[2].window] = [fetchedAt |-> req[2].now, data |-> req[2].result.data]

Caches == <<aggregateCache, realtimeCache>>

\* r's awaited credential construction or its upstream report call has failed
CallFailed(r) ==
    \/ /\ req[r].pc = "done" /\ req[r].awaiting # 0
       /\ promises[req[r].awaiting].state = "rejected"
    \/ req[r].response.status = "rejected"

C7_FailsWithError ==
    \A r \in Requests :
        /\ CallFailed(r) =>
              /\ req[r].result.status = "error"
              /\ req[r].result.data = <<>>
              /\ req[r].result.error =
                    IF req[r].response.status = "rejected" THEN "UpstreamError"
                    ELSE promises[req[r].awaiting].error
        /\ (req[r].result.status = "ok" /\ req[r].result.data = <<>>) =>
              \/ /\ req[r].result.from = "upstream"
                 /\ req[r].response.status = "resolved"
                 /\ (~req[r].response.hasRows \/ req[r].response.rows = <<>>)
              \/ /\ req[r].result.from = "cache"
                 /\ req[r].response.status = "none"

\* every step of a call but the store of a successful upstream result leaves
\* both caches as they are; the store writes the result of its own response
C7_OnlySuccessStores ==
    \A r \in Requests :
        /\ (req'[r] # req[r] /\ ~Stores(r)) => Caches' = Caches
        /\ (req'[r] # req[r] /\ CallFailed(r)') => Caches' = Caches
        /\ Stores(r) => /\ req'[r].response.status = "resolved"
                        /\ (req'[r].result.data = <<>>) =
                              (~req'[r].response.hasRows \/ req'[r].response.rows = <<>>)

\* C7: a request whose credential construction or upstream report call fails
\* ends with that error (never a success, never an empty event list) and writes
\* no cache entry; an empty event list is returned only for an upstream success
\* with zero rows, or from the cache.
C7_FailureIsError == []C7_FailsWithError /\ [][C7_OnlySuccessStores]_vars

C7_Witness ==
    /\ Keyed(1) /\ Keyed(2) /\ SameKey(1, 2)
    /\ req[1].fn = "realtime"
    /\ req[1].result.from = "upstream"
    /\ req[1].result.data # <<>>
    /\ req[2].response.status = "rejected"
    /\ req[2].result.status = "error"
    /\ realtimeCache[req[2].window] = [fetchedAt |-> req[1].now, data |-> req[1].result.data]

ConstructionFailed == Len(promises) >= 1 /\ promises[1].state = "rejected"

C8_FailureSticks ==
    ConstructionFailed =>
        /\ Len(promises) = 1
        /\ analyticsClientPromise = 1
        /\ upstreamCalled = {}
        /\ \A r \in Requests :
              (Missed(r) /\ req[r].pc = "done") =>
                  /\ req[r].result = Failure(promises[1].error)
                  /\ req[r].awaiting = 1
                  /\ ~req[r].invoked

C8_NoNewConstruction ==
    ConstructionFailed =>
        /\ promises' = promises
        /\ analyticsClientPromise' = analyticsClientPromise
        /\ \A r \in Requests : Starts(r) => req'[r].awaiting = 1

\* C8: once the one credential construction has failed, every later request
\* that misses the cache fails with that same error and no new construction is
\* started, also after the credential reference has been set.
C8_FailedConstructionIsPermanent == []C8_FailureSticks /\ [][C8_NoNewConstruction]_vars

C8_Witness ==
    /\ ConstructionFailed
    /\ promises[1].error = "ConfigError"
    /\ keyFilePath
    /\ req[2].pc = "done"
    /\ req[2].configured
    /\ req[2].result = Failure("ConfigError")

\* C9: while the credential reference is unset, every call with valid arguments
\* fails with the configuration error, no authentication handshake and no
\* upstream report call has been made, and both caches are empty.
C9_UnsetCredentials ==
    ~keyFilePath =>
        /\ Handshakes = {}
        /\ upstreamCalled = {}
        /\ aggregateCache.data.null
        /\ DOMAIN realtimeCache = {}
        /\ \A r \in Requests :
              Keyed(r) => /\ ~req[r].invoked
                          /\ req[r].pc \in {"awaitClient", "done"}
                          /\ promises[req[r].awaiting].state = "rejected"
                          /\ req[r].pc = "done" => req[r].result = Failure("ConfigError")

C9_Witness ==
    /\ ~keyFilePath
    /\ req[1].fn = "aggregate" /\ req[1].result = Failure("ConfigError")
    /\ req[2].fn = "realtime" /\ req[2].result = Failure("ConfigError")

\* r's call was served from the cache in this step
C10_HitStep(r) ==
    /\ req'[r].pc = "done"
    /\ req'[r].result.status = "ok"
    /\ req'[r].result.from = "cache"
    /\ req'[r].result.data =
          IF req'[r].fn = "aggregate" THEN aggregateCache.data.items
          ELSE realtimeCache[req'[r].window].data
    /\ req'[r].awaiting = 0
    /\ ~req'[r].invoked
    /\ Caches' = Caches
    /\ promises' = promises
    /\ analyticsClientPromise' = analyticsClientPromise
    /\ upstreamCalled' = upstreamCalled
    /\ \A s \in Requests \ {r} : req'[s] = req[s]

C10_HitChangesNothing ==
    \A r \in Requests :
        (Starts(r) /\ ~EntryStale(req'[r].fn, req'[r].window, clock)) => C10_HitStep(r)

\* what a hit returns is what the miss that stored the entry returned
C10_SameAsMiss ==
    \A r \in Requests :
        (Keyed(r) /\ req[r].result.from = "cache") =>
            \E s \in Requests :
                /\ s < r /\ SameKey(s, r)
                /\ req[s].result.from = "upstream"
                /\ req[s].now = req[r].servedFetchedAt
                /\ req[s].result.data = req[r].result.data

\* C10: a call that finds a fresh entry for its key returns exactly the data
\* stored in it (the sequence the earlier miss returned) and changes nothing: no
\* upstream call, no credential construction started or awaited, both caches
\* and the memoized client unchanged.
C10_HitIsPure == []C10_SameAsMiss /\ [][C10_HitChangesNothing]_vars

C10_Witness ==
    /\ req[1].fn = "realtime" /\ SameKey(1, 2)
    /\ req[1].result.from = "upstream"
    /\ req[1].result.data # <<>>
    /\ req[2].result.from = "cache"
    /\ req[2].result.data = req[1].result.data
    /\ req[2].awaiting = 0
    /\ Len(promises) = 1

\* both layers have dealt with the raw input
BothLayersDone == routePc = "clamped" /\ req[1].pc # "idle" /\ req[1].fn = "realtime"

\* the raw input is absent, or an integer that is at least 1
AbsentOrPositiveInteger(v) ==
    \/ v.kind = "undef"
    \/ v.kind = "num" /\ v.quarters % 4 = 0 /\ v.quarters >= 4

\* the raw input is non-finite, or a number that is at most 0
NonFiniteOrNonPositive(v) ==
    \/ v.kind \in {"nan", "inf"}
    \/ v.kind = "num" /\ v.quarters <= 0

Called(r) == req[r].pc = "idle" /\ req'[r].pc # "idle"

\* the step leaves the caches, the client promise and the upstream untouched
NothingTouched ==
    UNCHANGED <<aggregateCache, realtimeCache, promises, analyticsClientPromise,
                upstreamCalled>>

\* r has failed at once: it has no result data, awaits nothing, has invoked
\* nothing
FailedAtOnce(r) ==
    /\ req[r].pc = "done"
    /\ req[r].result.status = "error"
    /\ req[r].result.data = <<>>
    /\ req[r].result.from = "none"
    /\ req[r].awaiting = 0
    /\ ~req[r].invoked
    /\ req[r].response = NoResponse

C12_RejectedStep ==
    \A r \in Requests :
        (/\ Called(r)
         /\ req'[r].fn = "realtime"
         /\ NonFiniteOrNonPositive(req'[r].minutesAgo))
        => /\ FailedAtOnce(r)'
           /\ req'[r].result.error \in {"PropertyIdError", "WindowError"}
           /\ req'[r].propertyId = "123" => req'[r].result.error = "WindowError"
           /\ NothingTouched

C12_RejectedStays ==
    \A r \in Requests : req[r].result.error = "WindowError" => FailedAtOnce(r)

\* C12: a call of getRealtimeEventCounts whose minutesAgo is non-finite or at
\* most 0 fails in the step of the call with a validation error; that step
\* changes neither cache, starts no credential construction and invokes no
\* upstream operation, and the call never does so later, whether or not a fresh
\* realtime entry exists.
C12_InvalidWindowFailsAtOnce == []C12_RejectedStays /\ [][C12_RejectedStep]_vars

C12_Witness ==
    /\ req[1].fn = "realtime" /\ req[1].result.from = "upstream"
    /\ req[2].fn = "realtime"
    /\ req[2].propertyId = "123"
    /\ req[2].minutesAgo = Num(0)
    /\ req[2].result.error = "WindowError"
    /\ req[2].freshAtRejection
    /\ DOMAIN realtimeCache = {req[1].window}

C13_RejectedStep ==
    \A r \in Requests :
        (Called(r) /\ req'[r].propertyId \in {NoPropertyId, ""})
        => /\ FailedAtOnce(r)'
           /\ req'[r].result.error = "PropertyIdError"
           /\ NothingTouched

C13_RejectedStays ==
    \A r \in Requests : req[r].result.error = "PropertyIdError" => FailedAtOnce(r)

\* C13: a call of either function with an absent or empty propertyId fails in
\* the step of the call, also when a fresh entry of its key exists: it returns
\* no data, changes neither cache, starts no credential construction and invokes
\* no upstream operation, in that step and ever after.
C13_MissingPropertyIdFailsAtOnce == []C13_RejectedStays /\ [][C13_RejectedStep]_vars

C13_Witness ==
    /\ req[1].fn = "aggregate" /\ req[1].result.from = "upstream"
    /\ req[2].fn = "aggregate"
    /\ req[2].propertyId = NoPropertyId
    /\ req[2].result.error = "PropertyIdError"
    /\ req[2].result.data = <<>>
    /\ req[2].freshAtRejection
    /\ aggregateCache.data = Arr(req[1].result.data)

\* request r has been answered with status 200
Answered200(r) == http[r].responses # <<>> /\ http[r].responses[1].status = 200

\* C14: the windowMinutes of the 200 response of a realtime request is the
\* window its service call used, as the key of the realtime cache and as the
\* look-back of the upstream call.
C14_EchoedWindowIsServiceWindow ==
    \A r \in Requests :
        (http[r].route = "realtime" /\ Answered200(r))
        => /\ IsInteger(http[r].responses[1].windowMinutes)
           /\ IntOf(http[r].responses[1].windowMinutes) = req[r].window
           /\ req[r].fn = "realtime"
           /\ req[r].minutesAgo = http[r].responses[1].windowMinutes
           /\ req[r].window \in DOMAIN realtimeCache

C14_Witness ==
    /\ http[1].route = "realtime" /\ Answered200(1)
    /\ http[1].responses[1].windowMinutes = Num(29)
    /\ req[1].window = 29
    /\ req[1].result.from = "upstream"
    /\ http[2].route = "realtime" /\ Answered200(2)
    /\ http[2].responses[1].windowMinutes = Num(5)
    /\ req[2].window = 5

\* C15: a request of either route is answered at most once, and only after its
\* service call has ended: with 200 and the events of the call exactly when the
\* call succeeded, with 500 and an error message exactly when it failed.
C15_AnsweredOnceByOutcome ==
    \A r \in Requests :
        /\ Len(http[r].responses) <= 1
        /\ http[r].responses # <<>> =>
              /\ http[r].route \in {"events", "realtime"}
              /\ req[r].pc = "done"
              /\ http[r].responses[1].status \in {200, 500}
              /\ http[r].responses[1].status = 200 <=> req[r].result.status = "ok"
              /\ http[r].responses[1].status = 500 <=> req[r].result.status = "error"
              /\ http[r].responses[1].status = 200 =>
                    /\ http[r].responses[1].events = req[r].result.data
                    /\ http[r].responses[1].error = ""
              /\ http[r].responses[1].status = 500 =>
                    /\ http[r].responses[1].error # ""
                    /\ http[r].responses[1].events = <<>>
                    /\ req[r].result.error \in {"ConfigError", "AuthError", "UpstreamError"}

C15_Witness ==
    /\ http[1].route = "events"
    /\ http[1].responses # <<>> /\ http[1].responses[1].status = 500
    /\ req[1].result.error = "UpstreamError"
    /\ http[2].route = "events" /\ Answered200(2)
    /\ req[2].result.from = "upstream"
    /\ http[2].responses[1].events = req[2].result.data
    /\ Len(req[2].result.data) = 2

\* the report operation of call r has answered
Answered(r) == req[r].response.status = "resolved"

\* C16: the result of a miss has one EventCount per upstream row, in the order
\* of the rows: the event name of the row or "unknown_event", the count of the
\* row as a number or 0; absent rows and an empty list of rows give the empty
\* list as a successful result.
C16_RowWiseImage ==
    \A r \in Requests :
        Answered(r) =>
            LET rows == req[r].response.rows
                data == req[r].result.data
            IN  /\ req[r].result.status = "ok"
                /\ req[r].result.from = "upstream"
                /\ Len(data) = Len(rows)
                /\ ~req[r].response.hasRows => data = <<>>
                /\ \A i \in 1..Len(rows) :
                      /\ rows[i].dimensionValue.has =>
                            data[i].eventName = rows[i].dimensionValue.value
                      /\ ~rows[i].dimensionValue.has => data[i].eventName = "unknown_event"
                      /\ rows[i].metricValue = Val(<<"4", "2">>) => data[i].count = 42
                      /\ rows[i].metricValue = Val(<<"7">>) => data[i].count = 7
                      /\ ~rows[i].metricValue.has => data[i].count = 0

C16_Witness ==
    /\ Answered(1)
    /\ req[1].response.rows =
          <<Row(Val("click"), Val(<<"7">>)), Row(MissingName, MissingMetric),
            Row(Val("page_view"), Val(<<"4", "2">>))>>
    /\ req[1].result.data =
          <<[eventName |-> "click", count |-> 7],
            [eventName |-> "unknown_event", count |-> 0],
            [eventName |-> "page_view", count |-> 42]>>

\* call r got its result from the upstream and stored it
StoredByCall(r) ==
    /\ req[r].pc = "done"
    /\ req[r].result.status = "ok"
    /\ req[r].result.from = "upstream"

\* the entry that call r writes: its captured time with its own result
PairOf(r) == [fetchedAt |-> req[r].now, data |-> req[r].result.data]

C17_EntriesAreWholePairs ==
    /\ ~aggregateCache.data.null =>
          \E r \in Requests :
              /\ StoredByCall(r) /\ req[r].fn = "aggregate"
              /\ aggregateCache.fetchedAt = PairOf(r).fetchedAt
              /\ aggregateCache.data.items = PairOf(r).data
    /\ \A w \in DOMAIN realtimeCache :
          \E r \in Requests :
              /\ StoredByCall(r) /\ req[r].fn = "realtime" /\ req[r].window = w
              /\ realtimeCache[w] = PairOf(r)

C17_StoreWritesWholePair ==
    \A r \in Requests :
        Stores(r) =>
            IF req[r].fn = "aggregate"
            THEN /\ aggregateCache'.fetchedAt = req[r].now
                 /\ aggregateCache'.data.items = req'[r].result.data
            ELSE realtimeCache'[req[r].window] =
                    [fetchedAt |-> req[r].now, data |-> req'[r].result.data]

\* C17: in every state each cache entry is the pair of one call: the time that
\* call captured, with the result of that call's own upstream invocation; every
\* store writes both fields together, under every interleaving of calls.
C17_CompletePairOfOneRequest ==
    []C17_EntriesAreWholePairs /\ [][C17_StoreWritesWholePair]_vars

C17_Witness ==
    /\ StoredByCall(1) /\ StoredByCall(2)
    /\ req[1].fn = "aggregate" /\ req[2].fn = "aggregate"
    /\ 1 \in req[2].inFlightAtStart
    /\ req[1].now < req[2].now
    /\ req[1].result.data # req[2].result.data
    /\ aggregateCache.fetchedAt = req[2].now
    /\ aggregateCache.data.items = req[2].result.data

\* r1 and r2 are calls of one key that overlap: r1 was in flight when r2 missed
OverlappingMisses(r1, r2) ==
    /\ r1 \in req[r2].inFlightAtStart
    /\ req[r2].result.from # "cache"

\* the result of r as the code shapes the response r itself received
OwnResult(r) == Shape([hasRows |-> req[r].response.hasRows, rows |-> req[r].response.rows])

\* C18 as stated: each of the overlapping misses issues its own upstream call
\* and returns its result, and the entry is the one of a call among them.
C18_EachOverlappingMissFetches ==
    \A r1, r2 \in Requests :
        (OverlappingMisses(r1, r2) /\ req[r1].pc = "done" /\ req[r2].pc = "done")
        => /\ req[r1].invoked /\ req[r2].invoked
           /\ StoredByCall(r1) /\ StoredByCall(r2)

\* each overlapping miss that got the client invoked the upstream itself, and
\* each that returned data returned the image of its own response
C18_OwnCallOwnResult ==
    \A r1, r2 \in Requests :
        OverlappingMisses(r1, r2) =>
            \A r \in {r1, r2} :
                /\ (req[r].pc \in {"awaitReport", "done"}
                    /\ promises[req[r].awaiting].state = "resolved") => req[r].invoked
                /\ req[r].result.status = "ok" =>
                      /\ req[r].invoked /\ Answered(r)
                      /\ req[r].result.from = "upstream"
                      /\ req[r].result.data = OwnResult(r)
                /\ req[r].result.status = "error" =>
                      req[r].result.error \in {"ConfigError", "AuthError", "UpstreamError"}

\* a store overwrites the entry of its key with the pair of the storing call,
\* whatever another call wrote there, and nothing else changes an entry
C18_LastStoreStands ==
    /\ \A r \in Requests :
          Stores(r) =>
              IF req[r].fn = "aggregate"
              THEN aggregateCache' = [fetchedAt |-> req[r].now, data |-> Arr(OwnResult(r)')]
              ELSE realtimeCache'[req[r].window] =
                      [fetchedAt |-> req[r].now, data |-> OwnResult(r)']
    /\ (aggregateCache' # aggregateCache \/ realtimeCache' # realtimeCache)
          => \E r \in Requests : Stores(r)

\* C18 amended: there is no single-flight. Each of several overlapping calls
\* of one key that miss awaits the client and, unless the credential
\* construction failed, invokes the upstream itself; each whose invocation
\* succeeds returns the image of its own response and overwrites the entry of
\* the key, so the entry is the one of the call that stored last; a call that
\* fails returns its error and stores nothing.
C18_NoSingleFlight == []C18_OwnCallOwnResult /\ [][C18_LastStoreStands]_vars

C18_Witness ==
    /\ OverlappingMisses(1, 2)
    /\ req[1].now = req[2].now
    /\ StoredByCall(1) /\ StoredByCall(2)
    /\ req[1].fn = "realtime" /\ req[2].fn = "realtime"
    /\ req[1].result.data = <<>>
    /\ Len(req[2].result.data) = 2
    /\ realtimeCache[req[1].window].data = <<>>

\* C19: for each cache key the fetchedAt of the entry never decreases: no store
\* replaces an entry by one with an earlier fetchedAt.
C19_FetchedAtNeverDecreases ==
    [][/\ (~aggregateCache.data.null) => aggregateCache'.fetchedAt >= aggregateCache.fetchedAt
       /\ \A w \in DOMAIN realtimeCache :
             realtimeCache'[w].fetchedAt >= realtimeCache[w].fetchedAt]_vars

\* C20: a miss stores its result with the time of the store as fetchedAt, so
\* the entry is fresh when it is stored: a call of the same key at that very
\* instant is a cache hit, whatever time the awaits of the miss took.
C20_StoredEntryIsFresh ==
    [][\A r \in Requests :
          Stores(r) =>
              IF req[r].fn = "aggregate"
              THEN /\ aggregateCache'.fetchedAt = clock
                   /\ clock - aggregateCache'.fetchedAt < 60000
              ELSE /\ realtimeCache'[req[r].window].fetchedAt = clock
                   /\ clock - realtimeCache'[req[r].window].fetchedAt < 15000]_vars

\* r2 is a call of the key of r1, made after the report call of r1 had failed,
\* that found no fresh entry
MissAfterUpstreamFailure(r1, r2) ==
    /\ r1 < r2
    /\ req[r1].result.error = "UpstreamError"
    /\ Keyed(r2) /\ SameKey(r1, r2)
    /\ r1 \notin req[r2].inFlightAtStart
    /\ req[r2].result.from # "cache"

C21_RetriedAfterFailure ==
    \A r1, r2 \in Requests :
        MissAfterUpstreamFailure(r1, r2) =>
            /\ req[r2].awaiting = analyticsClientPromise
            /\ promises[req[r2].awaiting].state = "resolved"
            /\ req[r2].pc \in {"awaitReport", "done"} => req[r2].invoked
            /\ req[r2].pc = "done" =>
                  \/ /\ Answered(r2)
                     /\ req[r2].result = Success(OwnResult(r2), "upstream")
                  \/ /\ req[r2].response.status = "rejected"
                     /\ req[r2].result.error = "UpstreamError"

C21_RetryIsStored ==
    \A r1, r2 \in Requests :
        (MissAfterUpstreamFailure(r1, r2) /\ Stores(r2)) =>
            IF req[r2].fn = "aggregate"
            THEN aggregateCache' = [fetchedAt |-> req[r2].now,
                                    data |-> Arr(req'[r2].result.data)]
            ELSE realtimeCache'[req[r2].window] =
                    [fetchedAt |-> req[r2].now, data |-> req'[r2].result.data]

\* C21: a failure of the upstream report call is not remembered: the next call
\* of the same key that finds no fresh entry awaits the resolved client, invokes
\* the upstream report operation again and, when that succeeds, returns its own
\* result and stores it.
C21_UpstreamFailureNotRemembered ==
    []C21_RetriedAfterFailure /\ [][C21_RetryIsStored]_vars

C21_Witness ==
    /\ MissAfterUpstreamFailure(1, 2)
    /\ req[1].fn = "realtime"
    /\ req[2].invoked /\ StoredByCall(2)
    /\ Len(req[2].result.data) = 2
    /\ realtimeCache[req[2].window] = PairOf(2)

\* a request is answered only after its service call has ended, that is after
\* the credential construction and the report call it waited for have completed
C22_NoAnswerBeforeCompletion ==
    \A r \in Requests :
        http[r].responses # <<>> =>
            /\ req[r].pc = "done"
            /\ req[r].response.status # "pending"
            /\ req[r].awaiting # 0 => promises[req[r].awaiting].state # "pending"

\* C22: when the credential construction and every report call complete, every
\* request of the two routes is answered at some time; no request is answered
\* while the construction or the report call it waits for is pending.
C22_EventuallyAnswered ==
    /\ []C22_NoAnswerBeforeCompletion
    /\ \A r \in Requests : (http[r].pc = "awaiting") ~> (http[r].responses # <<>>)

C22_Witness ==
    /\ http[1].route = "events" /\ http[1].responses # <<>>
    /\ req[1].invoked /\ req[1].response.status = "resolved"
    /\ http[2].route = "realtime" /\ http[2].responses # <<>>
    /\ req[2].invoked /\ req[2].response.status = "rejected"
    /\ promises[1].state = "resolved"

\* C23: the data a call returns from the cache was fetched by an upstream call
\* for the property of that call, never for another property.
C23_CachedDataIsOfSameProperty ==
    \A r \in Requests :
        (Keyed(r) /\ req[r].result.from = "cache") =>
            \A s \in Requests :
                (/\ StoredByCall(s) /\ SameKey(s, r)
                 /\ req[s].now = req[r].servedFetchedAt
                 /\ req[s].result.data = req[r].result.data)
                => req[s].propertyId = req[r].propertyId

\* the entry of the key (fn, window) holds an empty result, fetched less than
\* the TTL before the instant now
EmptyEntryWithinTtl(fn, window, now) ==
    IF fn = "aggregate"
    THEN /\ ~aggregateCache.data.null
         /\ aggregateCache.data.items = <<>>
         /\ now - aggregateCache.fetchedAt < 60000
    ELSE /\ window \in DOMAIN realtimeCache
         /\ realtimeCache[window].data = <<>>
         /\ now - realtimeCache[window].fetchedAt < 15000

C24_EmptyEntryServed ==
    \A r \in Requests :
        (Starts(r) /\ EmptyEntryWithinTtl(req'[r].fn, req'[r].window, clock))
        => /\ req'[r].pc = "done"
           /\ req'[r].result = [status |-> "ok", data |-> <<>>, error |-> "", from |-> "cache"]
           /\ ~req'[r].invoked
           /\ req'[r].awaiting = 0
           /\ NothingTouched

C24_EmptyResultStored ==
    \A r \in Requests :
        (Stores(r) /\ req[r].response.status = "pending" /\ req'[r].response.rows = <<>>)
        => /\ req'[r].result.data = <<>>
           /\ EmptyEntryWithinTtl(req[r].fn, req[r].window, req[r].now)'

====
